---- MODULE Spec2Model ----
(***************************************************************************)
(* A model of the CGPA calculator (src/app.py, src/database.py): the grade *)
(* aggregation functions, the SQLite tables they read, and the Flask       *)
(* request handlers that write those tables.                               *)
(*                                                                         *)
(* Numbers.  Every REAL column and every float(...) of the program is a    *)
(* Python float, an IEEE-754 binary64.  The model keeps that arithmetic:   *)
(* a float is a sign, an odd natural n of at most 53 bits and an exponent  *)
(* x, standing for s * n * 2^x, and +, *, / and round(.., 2) round to the  *)
(* nearest such value, ties to even, as the hardware and CPython do.       *)
(* Naturals wider than TLC's integers are sequences of 15-bit limbs, least *)
(* significant first.  Infinities, NaN and subnormals are outside the      *)
(* value sets the model draws its inputs from.                             *)
(***************************************************************************)
EXTENDS Integers, Sequences, FiniteSets, TLC

(***************************************************************************)
(* Naturals of any width: sequences of limbs in base 2^15.                 *)
(***************************************************************************)
LimbBits == 15

Base == 2 ^ LimbBits

\* The width of a binary64 significand.
MantBits == 53

RECURSIVE BTrim(_)
BTrim(a) ==
  IF a = <<>> THEN a
  ELSE IF a[Len(a)] = 0 THEN BTrim(SubSeq(a, 1, Len(a) - 1)) ELSE a

RECURSIVE BFromInt(_)
BFromInt(i) == IF i = 0 THEN <<>> ELSE <<i % Base>> \o BFromInt(i \div Base)

RECURSIVE IntBitLen(_)
IntBitLen(i) == IF i = 0 THEN 0 ELSE 1 + IntBitLen(i \div 2)

BBitLen(a) ==
  IF a = <<>> THEN 0 ELSE LimbBits * (Len(a) - 1) + IntBitLen(a[Len(a)])

BIsOdd(a) == a # <<>> /\ a[1] % 2 = 1

RECURSIVE BCmpFrom(_, _, _)
BCmpFrom(a, b, i) ==
  IF i = 0 THEN 0
  ELSE IF a[i] < b[i] THEN -1
  ELSE IF a[i] > b[i] THEN 1
  ELSE BCmpFrom(a, b, i - 1)

\* -1, 0 or 1 as a < b, a = b, a > b.
BCmp(a, b) ==
  IF Len(a) < Len(b) THEN -1
  ELSE IF Len(a) > Len(b) THEN 1
  ELSE BCmpFrom(a, b, Len(a))

RECURSIVE BAddC(_, _, _)
BAddC(a, b, c) ==
  IF a = <<>> /\ b = <<>> THEN (IF c = 0 THEN <<>> ELSE <<c>>)
  ELSE LET x == IF a = <<>> THEN 0 ELSE a[1]
           y == IF b = <<>> THEN 0 ELSE b[1]
           t == x + y + c
       IN  <<t % Base>> \o BAddC(IF a = <<>> THEN a ELSE Tail(a),
                                 IF b = <<>> THEN b ELSE Tail(b), t \div Base)

BAdd(a, b) == BAddC(a, b, 0)

RECURSIVE BSubC(_, _, _)
BSubC(a, b, c) ==
  IF a = <<>> THEN <<>>
  ELSE LET y == IF b = <<>> THEN 0 ELSE b[1]
           t == a[1] - y - c
       IN  <<t % Base>> \o BSubC(Tail(a), IF b = <<>> THEN b ELSE Tail(b),
                                 IF t < 0 THEN 1 ELSE 0)

\* a - b for a >= b.
BSub(a, b) == BTrim(BSubC(a, b, 0))

RECURSIVE BMulSmallC(_, _, _)
BMulSmallC(a, k, c) ==
  IF a = <<>> THEN (IF c = 0 THEN <<>> ELSE <<c>>)
  ELSE LET t == a[1] * k + c
       IN  <<t % Base>> \o BMulSmallC(Tail(a), k, t \div Base)

\* a * k for 0 <= k < Base.
BMulSmall(a, k) == IF k = 0 THEN <<>> ELSE BMulSmallC(a, k, 0)

RECURSIVE BMul(_, _)
BMul(a, b) ==
  IF b = <<>> \/ a = <<>> THEN <<>>
  ELSE BAdd(BMulSmall(a, b[1]),
            LET r == BMul(a, Tail(b)) IN IF r = <<>> THEN r ELSE <<0>> \o r)

\* a * 2^k.
BShl(a, k) ==
  IF a = <<>> THEN a
  ELSE [i \in 1..(k \div LimbBits) |-> 0] \o BMulSmall(a, 2 ^ (k % LimbBits))

RECURSIVE BDivSmallFrom(_, _, _, _)
BDivSmallFrom(a, k, i, r) ==
  IF i = 0 THEN <<>>
  ELSE LET t == r * Base + a[i]
       IN  BDivSmallFrom(a, k, i - 1, t % k) \o <<t \div k>>

\* floor(a / 2^k).
BShr(a, k) ==
  LET d == k \div LimbBits
  IN  IF Len(a) <= d THEN <<>>
      ELSE LET h == SubSeq(a, d + 1, Len(a))
           IN  BTrim(BDivSmallFrom(h, 2 ^ (k % LimbBits), Len(h), 0))

\* a mod 2^k.
BLow(a, k) == BSub(a, BShl(BShr(a, k), k))

RECURSIVE BDivFix(_, _, _)
BDivFix(q, r, d) ==
  IF BCmp(r, d) >= 0 THEN BDivFix(q + 1, BSub(r, d), d) ELSE <<q, r>>

\* <<floor(r / d), r mod d>> for r < d * Base and d's top limb >= Base / 2:
\* the top limbs give a quotient digit that is at most a few too small.
BDivStep(r, d) ==
  IF BCmp(r, d) < 0 THEN <<0, r>>
  ELSE LET k    == Len(d)
           rtop == IF Len(r) > k THEN r[k + 1] * Base + r[k] ELSE r[k]
           qh   == rtop \div (d[k] + 1)
       IN  BDivFix(qh, BSub(r, BMulSmall(d, qh)), d)

RECURSIVE BDivFrom(_, _, _, _)
BDivFrom(a, d, i, r) ==
  IF i = 0 THEN <<(<<>>), r>>
  ELSE LET Digit(st) ==
             LET Join(rest) == <<rest[1] \o <<st[1]>>, rest[2]>>
             IN  Join(BDivFrom(a, d, i - 1, st[2]))
       IN  Digit(BDivStep(BTrim(<<a[i]>> \o r), d))

\* <<floor(a / d), a mod d>> for d > 0, by long division in base 2^15.
BDivMod(a, d) ==
  LET Back(qr, sh) == <<BTrim(qr[1]), BShr(qr[2], sh)>>
      Normal(an, dn, sh) == Back(BDivFrom(an, dn, Len(an), <<>>), sh)
      By(sh) == Normal(BShl(a, sh), BShl(d, sh), sh)
  IN  By(LimbBits - IntBitLen(d[Len(d)]))

RECURSIVE IntTz(_)
IntTz(i) == IF i % 2 = 1 THEN 0 ELSE 1 + IntTz(i \div 2)

RECURSIVE BTz(_, _)
BTz(a, i) == IF a[i] = 0 THEN LimbBits + BTz(a, i + 1) ELSE IntTz(a[i])

BOne == <<1>>

(***************************************************************************)
(* Python floats.                                                          *)
(***************************************************************************)
FZero == [s |-> 0, n |-> <<>>, x |-> 0]

\* The float s * n * 2^x of a significand that already fits.
FCanon(s, n, x) ==
  IF n = <<>> \/ s = 0 THEN FZero
  ELSE LET Odd(z) == [s |-> s, n |-> BShr(n, z), x |-> x + z] IN Odd(BTz(n, 1))

\* n with its last bit dropped k times, rounded to nearest, ties to even.
BRoundShr(n, k) ==
  LET Nearest(q, c) == IF c > 0 \/ (c = 0 /\ BIsOdd(q)) THEN BAdd(q, BOne) ELSE q
  IN  Nearest(BShr(n, k), BCmp(BLow(n, k), BShl(BOne, k - 1)))

\* The float nearest to s * n * 2^x.
FRound(s, n, x) ==
  LET Drop(k) == IF k <= 0 THEN FCanon(s, n, x) ELSE FCanon(s, BRoundShr(n, k), x + k)
  IN  Drop(BBitLen(n) - MantBits)

\* The float nearest to s * (n / d) * 2^x, d > 0.
FRoundRat(s, n, d, x) ==
  IF n = <<>> \/ s = 0 THEN FZero
  ELSE LET \* The quotient has 53 or 54 bits: m is the 53 kept, up the rounding.
           Rounded(m, up, e) == FCanon(s, IF up THEN BAdd(m, BOne) ELSE m, e)
           Wide(q, m, r, e) == Rounded(m, BIsOdd(q) /\ (r # <<>> \/ BIsOdd(m)), e + 1)
           Exact(q, c, e) == Rounded(q, c > 0 \/ (c = 0 /\ BIsOdd(q)), e)
           Quotient(qr, den, e) ==
             IF BBitLen(qr[1]) > MantBits
             THEN Wide(qr[1], BShr(qr[1], 1), qr[2], e)
             ELSE Exact(qr[1], BCmp(BShl(qr[2], 1), den), e)
           Divide(num, den, e) == Quotient(BDivMod(num, den), den, e)
           Scaled(e0) ==
             Divide(IF e0 >= 0 THEN n ELSE BShl(n, -e0),
                    IF e0 >= 0 THEN BShl(d, e0) ELSE d, x + e0)
       IN  Scaled(BBitLen(n) - BBitLen(d) - MantBits)

Sgn(i) == IF i > 0 THEN 1 ELSE IF i < 0 THEN -1 ELSE 0

Abs(i) == IF i < 0 THEN -i ELSE i

\* float(i) of a small integer.
FInt(i) == FCanon(Sgn(i), BFromInt(Abs(i)), 0)

\* float("i/d") of a decimal literal with numerator i and denominator d (a power
\* of ten): the nearest float, which for d = 1 is the integer itself.
FDec(i, d) ==
  IF d = 1 THEN FInt(i) ELSE FRoundRat(Sgn(i), BFromInt(Abs(i)), BFromInt(d), 0)

FMul(a, b) == FRound(a.s * b.s, BMul(a.n, b.n), a.x + b.x)

FDiv(a, b) == FRoundRat(a.s * b.s, a.n, b.n, a.x - b.x)

\* The sign of a - b, exactly.
FCmp(a, b) ==
  IF a.s # b.s THEN Sgn(a.s - b.s)
  ELSE IF a.s = 0 THEN 0
  ELSE LET x == IF a.x < b.x THEN a.x ELSE b.x
       IN  a.s * BCmp(BShl(a.n, a.x - x), BShl(b.n, b.x - x))

FAdd(a, b) ==
  IF a.s = 0 THEN b
  ELSE IF b.s = 0 THEN a
  ELSE LET \* an and bn are the significands over the common exponent x, c
           \* compares them: the exact sum, then its nearest float.
           Sum(an, bn, c, x) ==
             FRound(IF a.s = b.s THEN a.s ELSE c * a.s,
                    IF a.s = b.s THEN BAdd(an, bn)
                    ELSE IF c >= 0 THEN BSub(an, bn) ELSE BSub(bn, an), x)
           Aligned(an, bn, x) == Sum(an, bn, BCmp(an, bn), x)
           Over(x) == Aligned(BShl(a.n, a.x - x), BShl(b.n, b.x - x), x)
       IN  Over(IF a.x < b.x THEN a.x ELSE b.x)

FGe(a, b) == FCmp(a, b) >= 0

FGt(a, b) == FCmp(a, b) > 0

\* round(a, 2): the float nearest to a's exact value rounded to two decimals, ties to even.
FRound2(a) ==
  IF a.s = 0 \/ a.x >= 0 THEN a
  ELSE LET h == BMulSmall(a.n, 100)
       IN  FRoundRat(a.s, BRoundShr(h, -a.x), BFromInt(100), 0)

(***************************************************************************)
(* Python values: None and the optional columns, dicts, tuples.            *)
(***************************************************************************)
\* An optional value is a sequence: <<>> is None (SQL NULL), <<v>> is v.
None == <<>>

Some(v) == <<v>>

IsNone(o) == o = <<>>

\* A dict is the sequence of its <<key, value>> items in insertion order.
DictKeys(d) == {d[i][1] : i \in DOMAIN d}

DictGet(d, k) == d[CHOOSE i \in DOMAIN d : d[i][1] = k][2]

\* d[k] = v: a key already there keeps its place and takes the new value.
DictSet(d, k, v) ==
  IF k \in DictKeys(d)
  THEN [i \in DOMAIN d |-> IF d[i][1] = k THEN <<k, v>> ELSE d[i]]
  ELSE Append(d, <<k, v>>)

\* str.upper() on the letters the forms submit.
Upper(str) ==
  CASE str = "a" -> "A"
    [] str = "b" -> "B"
    [] str = "a+" -> "A+"
    [] OTHER -> str

(***************************************************************************)
(* The tables of src/database.py.                                          *)
(***************************************************************************)
VARIABLES
  users,             \* users: the sequence of usernames; a user's id is its index
  grading_systems,   \* rows [id, user_id, grade_letter, grade_point]
  courses,           \* rows [id, user_id, name, credits, calculation_method,
                     \*       final_grade_letter, final_grade_point]
  course_components, \* rows [id, course_id, name, weight, score, max_score]
  lastid,            \* sqlite_sequence: the last AUTOINCREMENT id of each table
  resp               \* what the last call or request returned, or how it failed

vars == <<users, grading_systems, courses, course_components, lastid, resp>>

tables == <<users, grading_systems, courses, course_components, lastid>>

(***************************************************************************)
(* Helper functions of src/app.py.                                         *)
(***************************************************************************)
RECURSIVE DictFromRows(_, _)
DictFromRows(rows, d) ==
  IF rows = <<>> THEN d
  ELSE DictFromRows(Tail(rows),
                    DictSet(d, Upper(Head(rows).grade_letter), Head(rows).grade_point))

\* Mutant: a fixed scale, whatever rows the owner has.
get_user_grading_system_fixed(user_id) ==
  << <<"A", FInt(4)>>, <<"B", FInt(3)>> >>

get_user_grading_system(user_id) ==
  LET Mine(r) == r.user_id = user_id
  IN  DictFromRows(SelectSeq(grading_systems, Mine), <<>>)

RECURSIVE InsertDesc(_, _)
\* item put behind every item whose point is >= its own.
InsertDesc(sorted, item) ==
  IF sorted = <<>> THEN <<item>>
  ELSE IF FGe(Head(sorted)[2], item[2])
       THEN <<Head(sorted)>> \o InsertDesc(Tail(sorted), item)
       ELSE <<item>> \o sorted

RECURSIVE SortedDesc(_, _)
\* sorted(items, key=lambda item: item[1], reverse=True): stable.
SortedDesc(items, acc) ==
  IF items = <<>> THEN acc
  ELSE SortedDesc(Tail(items), InsertDesc(acc, Head(items)))

RECURSIVE FirstBelow(_, _)
\* Mutant: an entry equal to the point does not count.
FirstBelow(sorted_grades, point) ==
  IF sorted_grades = <<>> THEN None
  ELSE IF FGt(point, Head(sorted_grades)[2]) THEN Some(Head(sorted_grades)[1])
       ELSE FirstBelow(Tail(sorted_grades), point)

RECURSIVE FirstAtMost(_, _)
FirstAtMost(sorted_grades, point) ==
  IF sorted_grades = <<>> THEN None
  ELSE IF FGe(point, Head(sorted_grades)[2]) THEN Some(Head(sorted_grades)[1])
       ELSE FirstAtMost(Tail(sorted_grades), point)

get_grade_letter_from_point(user_grading_system, point) ==
  IF user_grading_system = <<>> THEN "N/A"
  ELSE LET sorted_grades == SortedDesc(user_grading_system, <<>>)
           hit == FirstAtMost(sorted_grades, point)
       IN  IF ~IsNone(hit) THEN hit[1]
           ELSE sorted_grades[Len(sorted_grades)][1]

\* One pass of the loop over a course's components.
ComponentCounts(comp) ==
  /\ ~IsNone(comp.score)
  /\ ~IsNone(comp.max_score)
  /\ FGt(comp.max_score[1], FZero)

RECURSIVE WeightedTotals(_, _, _)
\* <<total_weighted_score, total_weight>> after the loop.
WeightedTotals(components, total_weighted_score, total_weight) ==
  IF components = <<>> THEN <<total_weighted_score, total_weight>>
  ELSE LET comp == Head(components)
       IN  IF ComponentCounts(comp)
           THEN LET percentage == FMul(FDiv(comp.score[1], comp.max_score[1]), FInt(100))
                IN  WeightedTotals(Tail(components),
                                   FAdd(total_weighted_score, FMul(percentage, comp.weight)),
                                   FAdd(total_weight, comp.weight))
           ELSE WeightedTotals(Tail(components), total_weighted_score, total_weight)

\* Mutant: the bands start above their thresholds instead of at them.
letter_from_percentage_strict(final_percentage) ==
  IF FGt(final_percentage, FInt(90)) THEN "A"
  ELSE IF FGt(final_percentage, FInt(80)) THEN "B"
  ELSE IF FGt(final_percentage, FInt(70)) THEN "C"
  ELSE IF FGt(final_percentage, FInt(60)) THEN "D"
  ELSE "F"

letter_from_percentage(final_percentage) ==
  IF FGe(final_percentage, FInt(90)) THEN "A"
  ELSE IF FGe(final_percentage, FInt(80)) THEN "B"
  ELSE IF FGe(final_percentage, FInt(70)) THEN "C"
  ELSE IF FGe(final_percentage, FInt(60)) THEN "D"
  ELSE "F"

RECURSIVE FMaxOf(_, _)
FMaxOf(d, m) ==
  IF d = <<>> THEN m
  ELSE FMaxOf(Tail(d), IF FGt(Head(d)[2], m) THEN Head(d)[2] ELSE m)

\* Mutant: the fallback always scales to 4.0, whatever the scale holds.
max_gp_fixed(user_grading_system) == FInt(4)

\* max(user_grading_system.values()) if user_grading_system else 4.0
max_gp(user_grading_system) ==
  IF user_grading_system = <<>> THEN FInt(4)
  ELSE FMaxOf(Tail(user_grading_system), Head(user_grading_system)[2])

grade_point_from_components(final_percentage, letter, user_grading_system) ==
  IF letter \in DictKeys(user_grading_system)
  THEN DictGet(user_grading_system, letter)
  ELSE FMul(FDiv(final_percentage, FInt(100)), max_gp(user_grading_system))

\* Mutant: the percentage is cut off at 100.
course_final_grade_clamped(components, user_grading_system) ==
  LET Graded(final_percentage, letter) ==
        <<Some(final_percentage),
          Some(grade_point_from_components(final_percentage, letter,
                                           user_grading_system)),
          Some(letter)>>
      Lettered(final_percentage) ==
        Graded(final_percentage, letter_from_percentage(final_percentage))
      Clamped(raw) == Lettered(IF FGt(raw, FInt(100)) THEN FInt(100) ELSE raw)
      Averaged(totals) ==
        IF components = <<>> THEN <<None, None>>
        ELSE IF FCmp(totals[2], FZero) = 0 THEN <<None, None>>
        ELSE Clamped(FDiv(totals[1], totals[2]))
  IN  Averaged(WeightedTotals(components, FZero, FZero))

\* Lines 50-151 on the rows the SELECT returned: the tuple is two Nones, or
\* percentage, point and letter.
course_final_grade_of(components, user_grading_system) ==
  LET Graded(final_percentage, letter) ==
        <<Some(final_percentage),
          Some(grade_point_from_components(final_percentage, letter,
                                           user_grading_system)),
          Some(letter)>>
      Lettered(final_percentage) ==
        Graded(final_percentage, letter_from_percentage(final_percentage))
      Averaged(totals) ==
        IF components = <<>> THEN <<None, None>>
        ELSE IF FCmp(totals[2], FZero) = 0 THEN <<None, None>>
        ELSE Lettered(FDiv(totals[1], totals[2]))
  IN  Averaged(WeightedTotals(components, FZero, FZero))

calculate_course_final_grade(course_id, user_grading_system) ==
  LET Mine(r) == r.course_id = course_id
  IN  course_final_grade_of(SelectSeq(course_components, Mine), user_grading_system)

\* a, b, c = t raises ValueError unless t has three items.
Unpacks3(t) == Len(t) = 3

RECURSIVE CgpaTotals_by_letter(_, _, _, _)
\* Mutant: a final_grade course counts the point the scale now gives its letter.
CgpaTotals_by_letter(cs, user_grading_system, total_credits, total_grade_points_sum) ==
  IF cs = <<>>
  THEN [exc |-> "", total_credits |-> total_credits,
        total_grade_points_sum |-> total_grade_points_sum]
  ELSE LET course == Head(cs)
           Counted(current_course_grade_point) ==
             IF IsNone(current_course_grade_point)
             THEN CgpaTotals_by_letter(Tail(cs), user_grading_system, total_credits,
                                       total_grade_points_sum)
             ELSE CgpaTotals_by_letter(Tail(cs), user_grading_system,
                                       FAdd(total_credits, course.credits),
                                       FAdd(total_grade_points_sum,
                                            FMul(course.credits,
                                                 current_course_grade_point[1])))
           Unpacked(grade) ==
             IF course.calculation_method = "components" /\ ~Unpacks3(grade)
             THEN [exc |-> "ValueError", total_credits |-> total_credits,
                   total_grade_points_sum |-> total_grade_points_sum]
             ELSE Counted(IF course.calculation_method = "components"
                          THEN grade[2]
                          ELSE IF IsNone(course.final_grade_letter)
                                  \/ course.final_grade_letter[1]
                                       \notin DictKeys(user_grading_system)
                               THEN None
                          ELSE Some(DictGet(user_grading_system,
                                            course.final_grade_letter[1])))
       IN  Unpacked(calculate_course_final_grade(course.id, user_grading_system))

RECURSIVE CgpaTotals(_, _, _, _)
\* The loop of calculate_cgpa: the totals, or the exception that ended it.
CgpaTotals(cs, user_grading_system, total_credits, total_grade_points_sum) ==
  IF cs = <<>>
  THEN [exc |-> "", total_credits |-> total_credits,
        total_grade_points_sum |-> total_grade_points_sum]
  ELSE LET course == Head(cs)
           Counted(current_course_grade_point) ==
             IF IsNone(current_course_grade_point)
             THEN CgpaTotals(Tail(cs), user_grading_system, total_credits,
                             total_grade_points_sum)
             ELSE CgpaTotals(Tail(cs), user_grading_system,
                             FAdd(total_credits, course.credits),
                             FAdd(total_grade_points_sum,
                                  FMul(course.credits, current_course_grade_point[1])))
           Unpacked(grade) ==
             IF course.calculation_method = "components" /\ ~Unpacks3(grade)
             THEN [exc |-> "ValueError", total_credits |-> total_credits,
                   total_grade_points_sum |-> total_grade_points_sum]
             ELSE Counted(IF course.calculation_method = "components"
                          THEN grade[2] ELSE course.final_grade_point)
       IN  Unpacked(calculate_course_final_grade(course.id, user_grading_system))

\* [exc, val]: the CGPA, or the exception the call raised.
calculate_cgpa(user_id) ==
  LET Mine(r) == r.user_id = user_id
      Result(t) ==
        IF t.exc # "" THEN [exc |-> t.exc, val |-> None]
        ELSE IF FCmp(t.total_credits, FZero) = 0 THEN [exc |-> "", val |-> Some(FZero)]
        ELSE [exc |-> "",
              val |-> Some(FRound2(FDiv(t.total_grade_points_sum, t.total_credits)))]
  IN  Result(CgpaTotals(SelectSeq(courses, Mine), get_user_grading_system(user_id),
                        FZero, FZero))

(***************************************************************************)
(* What the forms submit.  A number is the decimal text <<i, d>> for i/d,  *)
(* which float(...) turns into the nearest float.                          *)
(***************************************************************************)
F(lit) == FDec(lit[1], lit[2])

GradeRow(id, user_id, letter, lit) ==
  [id |-> id, user_id |-> user_id, grade_letter |-> letter, grade_point |-> F(lit)]

ComponentRow(id, course_id, c) ==
  [id |-> id, course_id |-> course_id, name |-> "Exam", weight |-> F(c[1]),
   score |-> IF IsNone(c[2]) THEN None ELSE Some(F(c[2][1])),
   max_score |-> Some(F(c[3]))]

CourseRow(id, user_id, credits, method, letter, point) ==
  [id |-> id, user_id |-> user_id, name |-> "Math", credits |-> credits,
   calculation_method |-> method, final_grade_letter |-> letter,
   final_grade_point |-> point]

\* default_grades of register.
default_grades ==
  << <<"A+", <<4, 1>> >>, <<"A", <<4, 1>> >>, <<"A-", <<37, 10>> >>,
     <<"B+", <<33, 10>> >>, <<"B", <<3, 1>> >>, <<"B-", <<27, 10>> >>,
     <<"C+", <<23, 10>> >>, <<"C", <<2, 1>> >>, <<"C-", <<17, 10>> >>,
     <<"D+", <<13, 10>> >>, <<"D", <<1, 1>> >>, <<"F", <<0, 1>> >> >>

(***************************************************************************)
(* The aggregation functions on their own: the tables hold one owner, one  *)
(* components course and any scale and components out of the sets below,   *)
(* and each step calls one function on them.                               *)
(***************************************************************************)
MaxCalcComponents == 2

\* <<weight, score, max_score>> of a stored component: the weight is > 0.
CalcComponents ==
  { << <<3, 10>>, Some(<<18, 1>>), <<20, 1>> >>,
    << <<7, 10>>, Some(<<45, 1>>), <<50, 1>> >>,
    << <<1, 10>>, Some(<<90, 1>>), <<100, 1>> >>,
    << <<2, 10>>, Some(<<90, 1>>), <<100, 1>> >>,
    << <<1, 1>>,  Some(<<85, 1>>), <<100, 1>> >>,
    << <<1, 1>>,  Some(<<120, 1>>), <<100, 1>> >>,
    << <<3, 10>>, None, <<100, 1>> >>,
    << <<7, 10>>, Some(<<50, 1>>), <<0, 1>> >> }

CalcScales ==
  { default_grades,
    << <<"A+", <<4, 1>> >>, <<"F", <<0, 1>> >> >>,
    << <<"F", <<0, 1>> >>, <<"B", <<3, 1>> >>, <<"A", <<4, 1>> >>, <<"C", <<3, 1>> >> >>,
    << <<"A", <<5, 1>> >>, <<"C", <<2, 1>> >> >>,
    <<>> }

\* The points get_grade_letter_from_point is asked about.
CalcPoints == { <<4, 1>>, <<35, 10>>, <<-1, 1>> }

SeqsUpTo(S, k) == UNION {[1..m -> S] : m \in 0..k}

InitCalc ==
  /\ users = <<"ann">>
  /\ \E scale \in CalcScales :
       grading_systems =
         [i \in DOMAIN scale |-> GradeRow(i, 1, scale[i][1], scale[i][2])]
  /\ courses = <<CourseRow(1, 1, FInt(3), "components", None, None)>>
  /\ \E cs \in SeqsUpTo(CalcComponents, MaxCalcComponents) :
       course_components = [i \in DOMAIN cs |-> ComponentRow(i, 1, cs[i])]
  /\ lastid = [grading_systems |-> Len(grading_systems), courses |-> 1,
               course_components |-> Len(course_components)]
  /\ resp = [op |-> "init", user |-> 0, exc |-> "", flash |-> "", out |-> <<>>]

CallCourseFinalGrade ==
  /\ resp' = [op |-> "calculate_course_final_grade", user |-> 1, exc |-> "",
              flash |-> "",
              out |-> calculate_course_final_grade(1, get_user_grading_system(1))]
  /\ UNCHANGED tables

CallGradeLetterFromPoint ==
  /\ \E p \in CalcPoints :
       resp' = [op |-> "get_grade_letter_from_point", user |-> 1, exc |-> "",
                flash |-> "",
                out |-> <<F(p), get_grade_letter_from_point(
                                  get_user_grading_system(1), F(p))>>]
  /\ UNCHANGED tables

NextCalc == CallCourseFinalGrade \/ CallGradeLetterFromPoint

SpecCalc == InitCalc /\ [][NextCalc]_vars

(***************************************************************************)
(* calculate_cgpa on its own: one owner with the default scale and any     *)
(* list of courses out of the shapes below; each step asks for the CGPA.   *)
(***************************************************************************)
MaxCgpaCourses == 3

\* <<credits, calculation_method, final_grade_letter, final_grade_point,
\*   the course's components>>: what courses and manage_components store.
CgpaCourses ==
  { << <<3, 1>>, "final_grade", Some("A"), Some(<<4, 1>>), <<>> >>,
    << <<4, 1>>, "final_grade", Some("B"), Some(<<3, 1>>), <<>> >>,
    << <<3, 1>>, "final_grade", None, None, <<>> >>,
    << <<4, 1>>, "components", Some("B"), Some(<<3, 1>>),
       << << <<1, 1>>, Some(<<85, 1>>), <<100, 1>> >> >> >>,
    << <<3, 1>>, "components", None, None, <<>> >>,
    << <<3, 1>>, "components", None, None,
       << << <<1, 1>>, None, <<100, 1>> >> >> >> }

RECURSIVE ComponentsOfCourses(_, _, _)
\* The component rows of the courses cs[i..], numbered from id on.
ComponentsOfCourses(cs, i, id) ==
  IF i > Len(cs) THEN <<>>
  ELSE [k \in DOMAIN cs[i][5] |-> ComponentRow(id + k, i, cs[i][5][k])]
         \o ComponentsOfCourses(cs, i + 1, id + Len(cs[i][5]))

InitCgpa ==
  /\ users = <<"ann">>
  /\ grading_systems =
       [i \in DOMAIN default_grades |->
          GradeRow(i, 1, default_grades[i][1], default_grades[i][2])]
  /\ \E cs \in SeqsUpTo(CgpaCourses, MaxCgpaCourses) :
       /\ courses =
            [i \in DOMAIN cs |->
               CourseRow(i, 1, F(cs[i][1]), cs[i][2], cs[i][3],
                         IF IsNone(cs[i][4]) THEN None ELSE Some(F(cs[i][4][1])))]
       /\ course_components = ComponentsOfCourses(cs, 1, 0)
  /\ lastid = [grading_systems |-> Len(grading_systems), courses |-> Len(courses),
               course_components |-> Len(course_components)]
  /\ resp = [op |-> "init", user |-> 0, exc |-> "", flash |-> "", out |-> <<>>]

CallCgpa ==
  /\ LET Returned(r) == [op |-> "calculate_cgpa", user |-> 1, exc |-> r.exc,
                          flash |-> "", out |-> r.val]
     IN  resp' = Returned(calculate_cgpa(1))
  /\ UNCHANGED tables

CallCurrentCgpa ==
  /\ LET Returned(r) == [op |-> "_get_current_cgpa", user |-> 1, exc |-> r.exc,
                          flash |-> "", out |-> r.val]
     IN  resp' = Returned(calculate_cgpa(1))
  /\ UNCHANGED tables

NextCgpa == CallCgpa \/ CallCurrentCgpa

SpecCgpa == InitCgpa /\ [][NextCgpa]_vars

(***************************************************************************)
(* Claims about calculate_cgpa, checked under SpecCgpa.                    *)
(***************************************************************************)
IsCgpaCall == resp.op = "calculate_cgpa"

\* The grade point a course resolves to: the stored point in final_grade mode,
\* the aggregated point in components mode; None when it is undetermined.
ResolvedPoint(course) ==
  IF course.calculation_method = "components"
  THEN LET PointOf(grade) == IF Len(grade) = 3 THEN grade[2] ELSE None
       IN  PointOf(calculate_course_final_grade(
                     course.id, get_user_grading_system(course.user_id)))
  ELSE course.final_grade_point

Determined(course) == ~IsNone(ResolvedPoint(course))

Undetermined(course) == IsNone(ResolvedPoint(course))

RECURSIVE SumCredits(_)
SumCredits(cs) ==
  IF cs = <<>> THEN FZero
  ELSE FAdd(SumCredits(SubSeq(cs, 1, Len(cs) - 1)), cs[Len(cs)].credits)

RECURSIVE SumPoints(_)
SumPoints(cs) ==
  IF cs = <<>> THEN FZero
  ELSE FAdd(SumPoints(SubSeq(cs, 1, Len(cs) - 1)),
            FMul(cs[Len(cs)].credits, ResolvedPoint(cs[Len(cs)])[1]))

\* sum(credits_i * point_i) / sum(credits_i) to two decimals, 0.0 over no course.
CgpaOver(cs) ==
  IF cs = <<>> THEN FZero ELSE FRound2(FDiv(SumPoints(cs), SumCredits(cs)))

\* C2: calculate_cgpa skips every course whose grade point is undetermined (a
\* components course without a valid component, a final_grade course without a
\* stored point): whenever the list holds such a course the call returns the
\* CGPA of the other courses alone.
C2_SkipsUndetermined ==
  (IsCgpaCall /\ \E i \in DOMAIN courses : Undetermined(courses[i])) =>
    /\ resp.exc = ""
    /\ resp.out = Some(CgpaOver(SelectSeq(courses, Determined)))

\* C3: calculate_cgpa, and the /_get_current_cgpa query built on it, return
\* exactly 0.0 for an owner without courses and for an owner whose courses are
\* all undetermined, in either calculation method.
C3_ZeroWithoutGrades ==
  (/\ resp.op \in {"calculate_cgpa", "_get_current_cgpa"}
   /\ \A i \in DOMAIN courses : Undetermined(courses[i])) =>
    /\ resp.exc = ""
    /\ resp.out = Some(FZero)

\* C4: when at least one course has a grade point, calculate_cgpa returns
\* sum(credits_i * point_i) / sum(credits_i) over the courses that have one,
\* rounded to two decimals; credits 3 and 4 with points 4.0 and 3.0 give 3.43.
C4_RoundedWeightedAverage ==
  (IsCgpaCall /\ \E i \in DOMAIN courses : Determined(courses[i])) =>
    LET included == SelectSeq(courses, Determined)
    IN  /\ resp.exc = ""
        /\ resp.out = Some(FRound2(FDiv(SumPoints(included), SumCredits(included))))
        /\ ([i \in DOMAIN included |->
               <<included[i].credits, ResolvedPoint(included[i])>>]
              = << <<FInt(3), Some(FInt(4))>>, <<FInt(4), Some(FInt(3))>> >>) =>
             resp.out = Some(FDec(343, 100))

(***************************************************************************)
(* Claims about the aggregation functions, checked under SpecCalc.         *)
(***************************************************************************)
IsGradeCall == resp.op = "calculate_course_final_grade"

\* The scale and the components the last call read.
CalcScale == get_user_grading_system(1)

CalcRows == LET Mine(r) == r.course_id = 1 IN SelectSeq(course_components, Mine)

\* A component that takes part: its score is present and its max_score is > 0.
HasScoreAndMax(comp) == ~IsNone(comp.score) /\ FGt(comp.max_score[1], FZero)

PercentageOf(comp) == FMul(FDiv(comp.score[1], comp.max_score[1]), FInt(100))

RECURSIVE SumWeighted(_)
SumWeighted(cs) ==
  IF cs = <<>> THEN FZero
  ELSE FAdd(SumWeighted(SubSeq(cs, 1, Len(cs) - 1)),
            FMul(PercentageOf(cs[Len(cs)]), cs[Len(cs)].weight))

RECURSIVE SumWeights(_)
SumWeights(cs) ==
  IF cs = <<>> THEN FZero
  ELSE FAdd(SumWeights(SubSeq(cs, 1, Len(cs) - 1)), cs[Len(cs)].weight)

ExampleComponents ==
  << ComponentRow(1, 1, << <<3, 10>>, Some(<<18, 1>>), <<20, 1>> >>),
     ComponentRow(2, 1, << <<7, 10>>, Some(<<45, 1>>), <<50, 1>> >>) >>

\* C5: calculate_course_final_grade leaves out exactly the components with an
\* absent score or a max_score that is not > 0, and over the others returns
\* sum(percentage_i * weight_i) / sum(weight_i) with percentage_i =
\* score_i / max_score_i * 100, whatever its size (no clamping to 0..100);
\* when none is left there is no percentage.  Weights 0.3, 0.7 with scores
\* 18/20 and 45/50 give 90.
C5_WeightedAverage ==
  IsGradeCall =>
    LET valid == SelectSeq(CalcRows, HasScoreAndMax)
    IN  /\ valid = <<>> => resp.out = <<None, None>>
        /\ valid # <<>> =>
             /\ Len(resp.out) = 3
             /\ resp.out[1] = Some(FDiv(SumWeighted(valid), SumWeights(valid)))
        /\ course_components = ExampleComponents => resp.out[1] = Some(FInt(90))

\* C5 witness: a call on the example components returned 90.
C5_Witness ==
  /\ IsGradeCall
  /\ course_components = ExampleComponents
  /\ resp.out[1] = Some(FInt(90))

BandLetters == {"A", "B", "C", "D", "F"}

BandOf(pct) ==
  CASE FCmp(pct, FInt(90)) >= 0 -> "A"
    [] FCmp(pct, FInt(90)) < 0 /\ FCmp(pct, FInt(80)) >= 0 -> "B"
    [] FCmp(pct, FInt(80)) < 0 /\ FCmp(pct, FInt(70)) >= 0 -> "C"
    [] FCmp(pct, FInt(70)) < 0 /\ FCmp(pct, FInt(60)) >= 0 -> "D"
    [] OTHER -> "F"

ScaleDict(scale) == [i \in DOMAIN scale |-> <<scale[i][1], F(scale[i][2])>>]

\* C6: the letter calculate_course_final_grade returns is one of A, B, C, D, F,
\* is the band of the percentage (>= 90 A, >= 80 B, >= 70 C, >= 60 D, else F),
\* and is the same under every grading scale.
C6_LetterFromFixedBands ==
  (IsGradeCall /\ Len(resp.out) = 3) =>
    /\ resp.out[3][1] \in BandLetters
    /\ resp.out[3][1] = BandOf(resp.out[1][1])
    /\ \A scale \in CalcScales :
         LET other == course_final_grade_of(CalcRows, ScaleDict(scale))
         IN  Len(other) = 3 /\ other[3] = resp.out[3] /\ other[1] = resp.out[1]

\* C6 witness: a percentage of exactly 90 got the letter A under a scale in
\* which A is worth 5, not the 4.0 of the default scale.
C6_Witness ==
  /\ IsGradeCall
  /\ Len(resp.out) = 3
  /\ resp.out[1] = Some(FInt(90))
  /\ resp.out[3] = Some("A")
  /\ resp.out[2] = Some(FInt(5))

LargestPoint(d) ==
  LET pts == {d[i][2] : i \in DOMAIN d}
  IN  CHOOSE v \in pts : \A w \in pts : FCmp(v, w) >= 0

\* C7: the grade point is the scale's point for the band letter when the scale
\* has that letter; otherwise it is (percentage / 100) * the largest point of
\* the scale, or (percentage / 100) * 4.0 for an empty scale, and the call
\* still returns all three fields.  Scale {A+: 4.0, F: 0.0} with 85 gives 3.4.
C7_GradePoint ==
  (IsGradeCall /\ Len(resp.out) = 3) =>
    LET pct    == resp.out[1][1]
        letter == resp.out[3][1]
    IN  /\ ~IsNone(resp.out[2])
        /\ letter \in DictKeys(CalcScale) =>
             resp.out[2][1] = DictGet(CalcScale, letter)
        /\ (letter \notin DictKeys(CalcScale) /\ CalcScale # <<>>) =>
             resp.out[2][1] = FMul(FDiv(pct, FInt(100)), LargestPoint(CalcScale))
        /\ CalcScale = <<>> =>
             resp.out[2][1] = FMul(FDiv(pct, FInt(100)), FInt(4))
        /\ (CalcScale = << <<"A+", FInt(4)>>, <<"F", FZero>> >> /\ pct = FInt(85)) =>
             resp.out[2][1] = FDec(34, 10)

\* C7 witness: 85 percent under the scale {A+: 4.0, F: 0.0} gave B and 3.4.
C7_Witness ==
  /\ IsGradeCall
  /\ CalcScale = << <<"A+", FInt(4)>>, <<"F", FZero>> >>
  /\ resp.out = <<Some(FInt(85)), Some(FDec(34, 10)), Some("B")>>

\* C8: get_grade_letter_from_point(S, p) is "N/A" for an empty S; otherwise the
\* letter of an entry with the highest point that is <= p, or, when p is below
\* every entry, the letter of an entry with the lowest point.
C8_LetterFromPoint ==
  resp.op = "get_grade_letter_from_point" =>
    LET p      == resp.out[1]
        letter == resp.out[2]
        AtMost == {i \in DOMAIN CalcScale : FCmp(CalcScale[i][2], p) <= 0}
    IN  /\ CalcScale = <<>> => letter = "N/A"
        /\ AtMost # {} =>
             \E i \in AtMost :
               /\ letter = CalcScale[i][1]
               /\ \A j \in AtMost : FCmp(CalcScale[j][2], CalcScale[i][2]) <= 0
        /\ (CalcScale # <<>> /\ AtMost = {}) =>
             \E i \in DOMAIN CalcScale :
               /\ letter = CalcScale[i][1]
               /\ \A j \in DOMAIN CalcScale :
                    FCmp(CalcScale[i][2], CalcScale[j][2]) <= 0

\* C8 witness: a point between two entries of a scale stored in no particular
\* order got the letter of the entry just below it.
C8_Witness ==
  /\ resp.op = "get_grade_letter_from_point"
  /\ Len(CalcScale) = 4
  /\ resp.out = <<FDec(35, 10), "B">>

\* The weights the owner would enter after scaling them all by k.
WeightFactors == {2, 10}

ScaledWeights(cs, k) ==
  [i \in DOMAIN cs |-> [cs[i] EXCEPT !.weight = FMul(cs[i].weight, FInt(k))]]

\* C9: multiplying every component weight by a positive constant k leaves what
\* calculate_course_final_grade returns (percentage, letter, point) unchanged.
C9_WeightScaleInvariant ==
  IsGradeCall =>
    \A k \in WeightFactors :
      course_final_grade_of(ScaledWeights(CalcRows, k), CalcScale) = resp.out

(***************************************************************************)
(* The web application: the tables start empty (init_db) and every step is *)
(* one request, handled to its end.  The user a request is made for is the *)
(* one its session is logged in as (load_logged_in_user).                  *)
(***************************************************************************)
MaxCourses == 1

MaxComponents == 2

MaxAddedGrades == 1

Usernames == {"ann"}

\* The grading form as submitted: <<grade_letter, grade_point>>.
GradeForms == { <<"a", <<3, 1>> >>, <<"", <<3, 1>> >> }

\* The letters whose rows the grading page is asked to delete.
DeletedLetters == {"A"}

\* The course form as submitted: <<name, credits, calculation_method, grade_letter>>.
CourseForms ==
  { <<"Math", <<3, 1>>, "final_grade", "a">>,
    <<"Math", <<3, 1>>, "components", "">>,
    <<"", <<3, 1>>, "final_grade", "a">>,
    <<"Math", <<0, 1>>, "components", "">>,
    <<"Math", <<3, 1>>, "final_grade", "Q">>,
    <<"Math", <<3, 1>>, "final_grade", "">> }

\* The component form as submitted: <<name, <<weight, score, max_score>> >>.
ComponentForms ==
  { <<"Exam", << <<3, 10>>, Some(<<18, 1>>), <<20, 1>> >> >>,
    <<"Exam", << <<1, 1>>,  None, <<100, 1>> >> >>,
    <<"Exam", << <<0, 1>>,  Some(<<50, 1>>), <<100, 1>> >> >>,
    <<"Exam", << <<-1, 2>>, Some(<<50, 1>>), <<100, 1>> >> >>,
    <<"", << <<3, 10>>, Some(<<18, 1>>), <<20, 1>> >> >> }

Init ==
  /\ users = <<>>
  /\ grading_systems = <<>>
  /\ courses = <<>>
  /\ course_components = <<>>
  /\ lastid = [grading_systems |-> 0, courses |-> 0, course_components |-> 0]
  /\ resp = [op |-> "init", user |-> 0, exc |-> "", flash |-> "", out |-> <<>>]

UserIds == 1..Len(users)

Reply(op, user, flash, out) ==
  [op |-> op, user |-> user, exc |-> "", flash |-> flash, out |-> out]

\* An exception no handler catches: Flask answers 500.
Raised(op, user, exc) ==
  [op |-> op, user |-> user, exc |-> exc, flash |-> "", out |-> <<>>]

CourseOf(course_id, user_id) ==
  LET Hit(r) == r.id = course_id /\ r.user_id = user_id
  IN  SelectSeq(courses, Hit)

CourseIds == {courses[i].id : i \in DOMAIN courses}

ComponentIds == {course_components[i].id : i \in DOMAIN course_components}

register(username) ==
  /\ username \notin {users[i] : i \in DOMAIN users}
  /\ users' = Append(users, username)
  /\ grading_systems' =
       grading_systems \o
         [i \in DOMAIN default_grades |->
            GradeRow(lastid.grading_systems + i, Len(users) + 1,
                     default_grades[i][1], default_grades[i][2])]
  /\ lastid' = [lastid EXCEPT
                  !.grading_systems = lastid.grading_systems + Len(default_grades)]
  /\ resp' = Reply("register", 0, "Registration successful! Please log in.", <<>>)
  /\ UNCHANGED <<courses, course_components>>

register_taken(username) ==
  /\ username \in {users[i] : i \in DOMAIN users}
  /\ resp' = Reply("register", 0, "already registered", <<>>)
  /\ UNCHANGED tables

dashboard(u) ==
  /\ LET Rendered(r) == IF r.exc # "" THEN Raised("dashboard", u, r.exc)
                        ELSE Reply("dashboard", u, "", <<r.val[1]>>)
     IN  resp' = Rendered(calculate_cgpa(u))
  /\ UNCHANGED tables

\* u = 0: nobody is logged in.
get_current_cgpa(u) ==
  /\ LET Answered(r) == IF u = 0 THEN Reply("_get_current_cgpa", u, "", <<FZero>>)
                        ELSE IF r.exc # "" THEN Raised("_get_current_cgpa", u, r.exc)
                        ELSE Reply("_get_current_cgpa", u, "", <<r.val[1]>>)
     IN  resp' = Answered(calculate_cgpa(u))
  /\ UNCHANGED tables

\* Mutant: the INSERT goes through although the owner has the letter.
grading_system_add_or_update_append(u, letter, point) ==
  LET grade_letter == Upper(letter)
  IN  IF grade_letter = ""
      THEN /\ resp' = Reply("grading_system", u, "Grade letter and point are required.", <<>>)
           /\ UNCHANGED tables
      ELSE /\ lastid.grading_systems - Len(default_grades) * Len(users) < MaxAddedGrades
           /\ grading_systems' =
                Append(grading_systems,
                       GradeRow(lastid.grading_systems + 1, u, grade_letter, point))
           /\ lastid' = [lastid EXCEPT !.grading_systems = lastid.grading_systems + 1]
           /\ resp' = Reply("grading_system", u, "added successfully!", <<>>)
           /\ UNCHANGED <<users, courses, course_components>>

grading_system_add_or_update(u, letter, point) ==
  LET grade_letter == Upper(letter)
      Same(r) == r.user_id = u /\ r.grade_letter = grade_letter
  IN  IF grade_letter = ""
      THEN /\ resp' = Reply("grading_system", u, "Grade letter and point are required.", <<>>)
           /\ UNCHANGED tables
      ELSE IF SelectSeq(grading_systems, Same) = <<>>
      THEN /\ lastid.grading_systems - Len(default_grades) * Len(users) < MaxAddedGrades
           /\ grading_systems' =
                Append(grading_systems,
                       GradeRow(lastid.grading_systems + 1, u, grade_letter, point))
           /\ lastid' = [lastid EXCEPT !.grading_systems = lastid.grading_systems + 1]
           /\ resp' = Reply("grading_system", u, "added successfully!", <<>>)
           /\ UNCHANGED <<users, courses, course_components>>
      ELSE /\ grading_systems' =
                [i \in DOMAIN grading_systems |->
                   IF Same(grading_systems[i])
                   THEN [grading_systems[i] EXCEPT !.grade_point = F(point)]
                   ELSE grading_systems[i]]
           /\ resp' = Reply("grading_system", u, "updated successfully!", <<>>)
           /\ UNCHANGED <<users, courses, course_components, lastid>>

grading_system_delete(u, grade_id) ==
  LET Kept(r) == ~(r.id = grade_id /\ r.user_id = u)
  IN  /\ grading_systems' = SelectSeq(grading_systems, Kept)
      /\ resp' = Reply("grading_system", u, "Grade mapping deleted.", <<>>)
      /\ UNCHANGED <<users, courses, course_components, lastid>>

\* The loop of courses over the owner's rows: [exc, rows], the rows to show or
\* the exception that ended the loop.
RECURSIVE courses_for_display(_, _)
courses_for_display(cs, user_grading_system) ==
  IF cs = <<>> THEN [exc |-> "", rows |-> <<>>]
  ELSE LET course == Head(cs)
           Shown(grade) ==
             IF course.calculation_method = "components"
             THEN [id |-> course.id,
                   display_grade_letter |->
                     IF ~IsNone(grade[3]) THEN grade[3][1] ELSE "N/A",
                   display_grade_point |-> grade[2]]
             ELSE [id |-> course.id,
                   display_grade_letter |->
                     IF ~IsNone(course.final_grade_letter)
                     THEN course.final_grade_letter[1] ELSE "N/A",
                   display_grade_point |-> course.final_grade_point]
           Listed(grade, rest) ==
             IF course.calculation_method = "components" /\ ~Unpacks3(grade)
             THEN [exc |-> "ValueError", rows |-> <<>>]
             ELSE IF rest.exc # "" THEN rest
             ELSE [exc |-> "", rows |-> <<Shown(grade)>> \o rest.rows]
       IN  Listed(calculate_course_final_grade(course.id, user_grading_system),
                  courses_for_display(Tail(cs), user_grading_system))

courses_get(u) ==
  /\ LET Mine(r) == r.user_id = u
         Rendered(shown) == IF shown.exc # "" THEN Raised("courses", u, shown.exc)
                            ELSE Reply("courses", u, "", shown.rows)
     IN  resp' = Rendered(courses_for_display(SelectSeq(courses, Mine),
                                              get_user_grading_system(u)))
  /\ UNCHANGED tables

\* The error the course form's fields earn, "" for none (courses and edit_course).
CourseFormError(name, credits, calculation_method, letter, user_grading_system) ==
  LET grade_letter == Upper(letter)
      first == IF name = "" \/ FCmp(F(credits), FZero) = 0
               THEN "Course name and credits are required." ELSE ""
  IN  IF calculation_method # "final_grade" THEN first
      ELSE IF grade_letter = "" THEN "Grade letter is required for Final Grade method."
      ELSE IF grade_letter \notin DictKeys(user_grading_system)
           THEN "Invalid grade letter"
      ELSE first

courses_post(u, name, credits, calculation_method, letter) ==
  LET Mine(r) == r.user_id = u
      g_grading_system == get_user_grading_system(u)
      grade_letter == Upper(letter)
      Posted(shown, error) ==
        IF shown.exc # ""
        THEN /\ resp' = Raised("courses", u, shown.exc)
             /\ UNCHANGED tables
        ELSE IF error # ""
        THEN /\ resp' = Reply("courses", u, error, shown.rows)
             /\ UNCHANGED tables
        ELSE /\ lastid.courses < MaxCourses
             /\ courses' =
                  Append(courses,
                         [id |-> lastid.courses + 1, user_id |-> u, name |-> name,
                          credits |-> F(credits),
                          calculation_method |-> calculation_method,
                          final_grade_letter |->
                            IF calculation_method = "final_grade"
                            THEN Some(grade_letter) ELSE None,
                          final_grade_point |->
                            IF calculation_method = "final_grade"
                            THEN Some(DictGet(g_grading_system, grade_letter))
                            ELSE None])
             /\ lastid' = [lastid EXCEPT !.courses = lastid.courses + 1]
             /\ resp' = Reply("courses", u, "Course added successfully!", <<>>)
             /\ UNCHANGED <<users, grading_systems, course_components>>
  IN  Posted(courses_for_display(SelectSeq(courses, Mine), g_grading_system),
             CourseFormError(name, credits, calculation_method, letter,
                             g_grading_system))

edit_course(u, course_id, name, credits, calculation_method, letter) ==
  LET g_grading_system == get_user_grading_system(u)
      grade_letter_input == Upper(letter)
      Edited(error) ==
        IF error # ""
        THEN /\ resp' = Reply("edit_course", u, error, <<>>)
             /\ UNCHANGED tables
        ELSE /\ courses' =
                  [i \in DOMAIN courses |->
                     IF courses[i].id = course_id /\ courses[i].user_id = u
                     THEN [courses[i] EXCEPT
                             !.name = name,
                             !.credits = F(credits),
                             !.calculation_method = calculation_method,
                             !.final_grade_letter =
                               IF calculation_method = "final_grade"
                               THEN Some(grade_letter_input) ELSE None,
                             !.final_grade_point =
                               IF calculation_method = "final_grade"
                               THEN Some(DictGet(g_grading_system, grade_letter_input))
                               ELSE None]
                     ELSE courses[i]]
             /\ resp' = Reply("edit_course", u, "Course updated successfully!", <<>>)
             /\ UNCHANGED <<users, grading_systems, course_components, lastid>>
  IN  IF CourseOf(course_id, u) = <<>>
      THEN /\ resp' = Reply("edit_course", u, "Course not found", <<>>)
           /\ UNCHANGED tables
      ELSE Edited(CourseFormError(name, credits, calculation_method, letter,
                                  g_grading_system))

\* get_db opens the connection without PRAGMA foreign_keys = ON, so SQLite does
\* not act on the schema's ON DELETE CASCADE: the course's components stay.
delete_course(u, course_id) ==
  LET Kept(r) == r.id # course_id
  IN  IF CourseOf(course_id, u) = <<>>
      THEN /\ resp' = Reply("delete_course", u, "Course not found", <<>>)
           /\ UNCHANGED tables
      ELSE /\ courses' = SelectSeq(courses, Kept)
           /\ resp' = Reply("delete_course", u, "Course deleted successfully!", <<>>)
           /\ UNCHANGED <<users, grading_systems, course_components, lastid>>

\* Lines 545-554: a final_grade course becomes a components course and loses
\* its stored grade.
SwitchedToComponents(course_id) ==
  [i \in DOMAIN courses |->
     IF courses[i].id = course_id /\ courses[i].calculation_method = "final_grade"
     THEN [courses[i] EXCEPT !.calculation_method = "components",
                             !.final_grade_letter = None,
                             !.final_grade_point = None]
     ELSE courses[i]]

\* Lines 605-611 and 653-658: the grade the components now give is unpacked
\* and written to the course; when it does not unpack the request ends there.
Recalculated(cs, course_id, grade) ==
  IF ~Unpacks3(grade) THEN cs
  ELSE [i \in DOMAIN cs |->
          IF cs[i].id = course_id
          THEN [cs[i] EXCEPT !.final_grade_letter = grade[3],
                             !.final_grade_point = grade[2]]
          ELSE cs[i]]

manage_components_get(u, course_id) ==
  LET Rendered(grade) ==
        IF ~Unpacks3(grade)
        THEN Raised("manage_components", u, "ValueError")
        ELSE Reply("manage_components", u, "",
                   <<Some(FRound2(grade[1][1])), Some(FRound2(grade[2][1])), grade[3]>>)
  IN  IF CourseOf(course_id, u) = <<>>
      THEN /\ resp' = Reply("manage_components", u, "Course not found", <<>>)
           /\ UNCHANGED tables
      ELSE /\ courses' = SwitchedToComponents(course_id)
           /\ resp' = Rendered(calculate_course_final_grade(
                                 course_id, get_user_grading_system(u)))
           /\ UNCHANGED <<users, grading_systems, course_components, lastid>>

\* Mutant: only a negative weight is refused.
ComponentFormRejected_negative(name, weight) ==
  name = "" \/ FCmp(weight, FZero) < 0

\* Lines 571-574: the form is refused without a name or with a weight <= 0.
ComponentFormRejected(name, weight) ==
  name = "" \/ FCmp(weight, FZero) <= 0

\* POST with action add_or_update; component_id is None for a new component.
manage_components_add_or_update(u, course_id, component_id, name, c) ==
  LET Mine(r) == r.course_id = course_id
      \* The table after the INSERT or the UPDATE of row.
      Written(row) ==
        IF IsNone(component_id) THEN Append(course_components, row)
        ELSE [i \in DOMAIN course_components |->
                IF course_components[i].id = component_id[1]
                   /\ course_components[i].course_id = course_id
                THEN row ELSE course_components[i]]
      Committed(rejected, comps, grade) ==
        /\ (~rejected /\ IsNone(component_id)) =>
             lastid.course_components < MaxComponents
        /\ course_components' = comps
        /\ lastid' = IF ~rejected /\ IsNone(component_id)
                     THEN [lastid EXCEPT
                             !.course_components = lastid.course_components + 1]
                     ELSE lastid
        /\ courses' = Recalculated(SwitchedToComponents(course_id), course_id, grade)
        /\ resp' = IF ~Unpacks3(grade)
                   THEN Raised("manage_components", u, "ValueError")
                   ELSE Reply("manage_components", u,
                              IF name = "" THEN "Component name and weight are required."
                              ELSE IF rejected THEN "Weight must be positive."
                              ELSE IF IsNone(component_id)
                                   THEN "Component added successfully!"
                              ELSE "Component updated successfully!", <<>>)
        /\ UNCHANGED <<users, grading_systems>>
      Stored(rejected, comps) ==
        Committed(rejected, comps,
                  course_final_grade_of(SelectSeq(comps, Mine),
                                        get_user_grading_system(u)))
      Validated(rejected, row) ==
        Stored(rejected, IF rejected THEN course_components ELSE Written(row))
      Parsed(row) ==
        Validated(ComponentFormRejected(name, row.weight), [row EXCEPT !.name = name])
  IN  IF CourseOf(course_id, u) = <<>>
      THEN /\ resp' = Reply("manage_components", u, "Course not found", <<>>)
           /\ UNCHANGED tables
      ELSE Parsed(ComponentRow(IF IsNone(component_id)
                               THEN lastid.course_components + 1
                               ELSE component_id[1], course_id, c))

\* POST with action delete.
manage_components_delete(u, course_id, component_id) ==
  LET Mine(r) == r.course_id = course_id
      Kept(r) == ~(r.id = component_id /\ r.course_id = course_id)
      Committed(comps, grade) ==
        /\ course_components' = comps
        /\ courses' = Recalculated(SwitchedToComponents(course_id), course_id, grade)
        /\ resp' = IF ~Unpacks3(grade)
                   THEN Raised("manage_components", u, "ValueError")
                   ELSE Reply("manage_components", u,
                              "Component deleted successfully!", <<>>)
        /\ UNCHANGED <<users, grading_systems, lastid>>
      Deleted(comps) ==
        Committed(comps, course_final_grade_of(SelectSeq(comps, Mine),
                                               get_user_grading_system(u)))
  IN  IF CourseOf(course_id, u) = <<>>
      THEN /\ resp' = Reply("manage_components", u, "Course not found", <<>>)
           /\ UNCHANGED tables
      ELSE Deleted(SelectSeq(course_components, Kept))

delete_component(u, component_id) ==
  LET Hit(r) == r.id = component_id
      Kept(r) == r.id # component_id
      Committed(course_id, comps, grade) ==
        /\ course_components' = comps
        /\ courses' = Recalculated(courses, course_id, grade)
        /\ resp' = IF ~Unpacks3(grade)
                   THEN Raised("delete_component", u, "ValueError")
                   ELSE Reply("delete_component", u,
                              "Component deleted successfully!", <<>>)
        /\ UNCHANGED <<users, grading_systems, lastid>>
      Deleted(course_id, comps) ==
        LET Mine(r) == r.course_id = course_id
        IN  Committed(course_id, comps,
                      course_final_grade_of(SelectSeq(comps, Mine),
                                            get_user_grading_system(u)))
      Found(component) ==
        IF component = <<>>
        THEN /\ resp' = Reply("delete_component", u, "Component not found.", <<>>)
             /\ UNCHANGED tables
        ELSE IF CourseOf(component[1].course_id, u) = <<>>
        THEN /\ resp' = Reply("delete_component", u,
                              "Component not found or you do not have permission to delete it.",
                              <<>>)
             /\ UNCHANGED tables
        ELSE Deleted(component[1].course_id, SelectSeq(course_components, Kept))
  IN  Found(SelectSeq(course_components, Hit))

Next ==
  \/ \E username \in Usernames : register(username) \/ register_taken(username)
  \/ \E u \in UserIds : dashboard(u)
  \/ \E u \in 0..Len(users) : get_current_cgpa(u)
  \/ \E u \in UserIds, f \in GradeForms : grading_system_add_or_update(u, f[1], f[2])
  \/ \E u \in UserIds, i \in DOMAIN grading_systems :
       /\ grading_systems[i].grade_letter \in DeletedLetters
       /\ grading_system_delete(u, grading_systems[i].id)
  \/ \E u \in UserIds : courses_get(u)
  \/ \E u \in UserIds, f \in CourseForms : courses_post(u, f[1], f[2], f[3], f[4])
  \/ \E u \in UserIds, course_id \in CourseIds, f \in CourseForms :
       edit_course(u, course_id, f[1], f[2], f[3], f[4])
  \/ \E u \in UserIds, course_id \in CourseIds : delete_course(u, course_id)
  \/ \E u \in UserIds, course_id \in CourseIds : manage_components_get(u, course_id)
  \/ \E u \in UserIds, course_id \in CourseIds,
        component_id \in {None} \cup {Some(i) : i \in ComponentIds},
        f \in ComponentForms :
       manage_components_add_or_update(u, course_id, component_id, f[1], f[2])
  \/ \E u \in UserIds, course_id \in CourseIds, component_id \in ComponentIds :
       manage_components_delete(u, course_id, component_id)
  \/ \E u \in UserIds, component_id \in ComponentIds : delete_component(u, component_id)

Spec == Init /\ [][Next]_vars

(***************************************************************************)
(* Claims about the requests, checked under Spec.                          *)
(***************************************************************************)
\* All three fields present, or all three absent.
IsGradeTriple(t) ==
  /\ Len(t) = 3
  /\ \/ \A k \in 1..3 : IsNone(t[k])
     \/ \A k \in 1..3 : ~IsNone(t[k])

\* C1: calculate_course_final_grade never fails: for the components of every
\* stored course and the owner's scale it returns a triple (percentage, point,
\* letter) whose fields are all present or all absent, the all-absent triple
\* when nothing can be aggregated, and every request that calls it (dashboard
\* and /_get_current_cgpa through calculate_cgpa, courses, manage_components,
\* delete_component) takes the result without an error.
C1_NeverFails ==
  /\ \A i \in DOMAIN courses :
       IsGradeTriple(calculate_course_final_grade(
                       courses[i].id, get_user_grading_system(courses[i].user_id)))
  /\ resp.exc = ""

\* The CGPA of user u's courses that have a grade point.
CgpaOfDetermined(u) ==
  LET Counted(course) == course.user_id = u /\ Determined(course)
  IN  CgpaOver(SelectSeq(courses, Counted))

\* The row the courses page shows for a course.
ShownAs(course) ==
  LET Mine(r) == r.user_id = course.user_id
      This(row) == row.id = course.id
      RowsOf(shown) == IF shown.exc # "" THEN <<>> ELSE SelectSeq(shown.rows, This)
  IN  RowsOf(courses_for_display(SelectSeq(courses, Mine),
                                 get_user_grading_system(course.user_id)))

\* C10: a request that moves a course from final_grade to components mode
\* (opening manage_components on it, or edit_course with method components)
\* while the course has no component leaves its stored letter and point
\* absent, and the course is from then on reported as undetermined: the
\* request itself succeeds, the CGPA is that of the other courses, and the
\* courses page shows the course with N/A.
C10_SwitchReportsUndetermined ==
  [][\A i \in DOMAIN courses :
       (/\ i \in DOMAIN courses'
        /\ courses'[i].id = courses[i].id
        /\ courses[i].calculation_method = "final_grade"
        /\ courses'[i].calculation_method = "components"
        /\ \A k \in DOMAIN course_components' :
             course_components'[k].course_id # courses[i].id) =>
         /\ IsNone(courses'[i].final_grade_letter)
         /\ IsNone(courses'[i].final_grade_point)
         /\ resp'.exc = ""
         /\ (calculate_cgpa(courses[i].user_id)
               = [exc |-> "", val |-> Some(CgpaOfDetermined(courses[i].user_id))])'
         /\ (Len(ShownAs(courses[i])) = 1)'
         /\ (\A k \in DOMAIN ShownAs(courses[i]) :
               ShownAs(courses[i])[k].display_grade_letter = "N/A")'
    ]_vars

\* C11: a course's calculation_method only ever moves from final_grade to
\* components: no request (courses, edit_course, manage_components,
\* delete_component or any other) leaves a course that was in components mode
\* in final_grade mode.
C11_ModeNeverReverts ==
  [][\A i \in DOMAIN courses, j \in DOMAIN courses' :
       (courses'[j].id = courses[i].id
        /\ courses[i].calculation_method = "components") =>
         courses'[j].calculation_method = "components"
    ]_vars

\* The grade pair stored with a course.
StoredPair(course) == <<course.final_grade_letter, course.final_grade_point>>

\* The owner's scale, read from the grading_systems rows gs.
ScaleIn(gs, user_id) ==
  LET Mine(r) == r.user_id = user_id IN DictFromRows(SelectSeq(gs, Mine), <<>>)

\* The course's components among the course_components rows cc.
ComponentsIn(cc, course_id) ==
  LET Mine(r) == r.course_id = course_id IN SelectSeq(cc, Mine)

\* The pair calculate_course_final_grade gives for the course's components in
\* cc and its owner's scale in gs: (absent, absent) when the result is
\* undetermined.
AggregatedPairIn(course, cc, gs) ==
  LET PairOf(grade) == IF Len(grade) = 3 THEN <<grade[3], grade[2]>>
                       ELSE <<None, None>>
  IN  PairOf(course_final_grade_of(ComponentsIn(cc, course.id),
                                   ScaleIn(gs, course.user_id)))

\* C12: for a components-mode course, a request that changes the course's
\* components (add or update through manage_components, delete through
\* manage_components or delete_component, the last valid component included)
\* leaves the stored (final_grade_letter, final_grade_point) equal to the
\* result of calculate_course_final_grade on the components and scale it
\* leaves, (absent, absent) when that result is undetermined; and a request
\* that leaves the components of a course with such a stored pair unchanged
\* either leaves the pair as it is or stores the result again.
C12_StoredPairIsAggregation ==
  [][\A cs \in {courses'}, cc \in {course_components'}, gs \in {grading_systems'} :
       \A i \in DOMAIN cs :
         cs[i].calculation_method = "components" =>
           /\ ComponentsIn(cc, cs[i].id) # ComponentsIn(course_components, cs[i].id) =>
                StoredPair(cs[i]) = AggregatedPairIn(cs[i], cc, gs)
           /\ \A j \in DOMAIN courses :
                (/\ courses[j].id = cs[i].id
                 /\ courses[j].calculation_method = "components"
                 /\ ComponentsIn(cc, cs[i].id) = ComponentsIn(course_components, cs[i].id)
                 /\ StoredPair(courses[j]) =
                      AggregatedPairIn(courses[j], course_components, grading_systems)) =>
                  \/ StoredPair(cs[i]) = StoredPair(courses[j])
                  \/ StoredPair(cs[i]) = AggregatedPairIn(cs[i], cc, gs)
    ]_vars

\* C13: after delete_course no course_components row with the deleted
\* course's id remains: in every reachable state each stored component
\* belongs to an existing course.
C13_ComponentsHaveCourse ==
  \A k \in DOMAIN course_components : course_components[k].course_id \in CourseIds

\* The rows of the courses table a request wrote: new ones and changed ones.
WrittenCourses == {i \in DOMAIN courses' : i \notin DOMAIN courses \/ courses'[i] # courses[i]}

\* C14: a final_grade course is created (courses) or updated (edit_course)
\* with a grade only when the submitted letter, upper-cased, is in the owner's
\* grading scale at that moment, and the stored final_grade_point is then the
\* scale's point for that letter; when the letter is empty or not in the scale
\* the request is rejected and the courses table is left unchanged.
C14_GradeFromScale ==
  [][\A u \in UserIds, f \in CourseForms :
       (/\ f[3] = "final_grade"
        /\ resp'.op \in {"courses", "edit_course"}
        /\ resp'.user = u
        /\ \/ courses_post(u, f[1], f[2], f[3], f[4])
           \/ \E course_id \in CourseIds :
                edit_course(u, course_id, f[1], f[2], f[3], f[4])) =>
         IF Upper(f[4]) # "" /\ Upper(f[4]) \in DictKeys(ScaleIn(grading_systems, u))
         THEN \A i \in WrittenCourses :
                /\ courses'[i].calculation_method = "final_grade"
                /\ courses'[i].final_grade_letter = Some(Upper(f[4]))
                /\ courses'[i].final_grade_point =
                     Some(DictGet(ScaleIn(grading_systems, u), Upper(f[4])))
         ELSE courses' = courses
    ]_vars

\* A course updated with the letter A after the owner moved A to 3.0: it
\* stores the 3.0 of the scale at that moment.
C14_Witness ==
  /\ resp.op = "edit_course"
  /\ resp.flash = "Course updated successfully!"
  /\ \E i \in DOMAIN courses :
       /\ courses[i].calculation_method = "final_grade"
       /\ courses[i].final_grade_letter = Some("A")
       /\ courses[i].final_grade_point = Some(FInt(3))

\* C15: every stored component has weight > 0 in every reachable state:
\* manage_components refuses an add or an update whose weight is <= 0 (it
\* answers "Weight must be positive.") and leaves the course_components table
\* unchanged, and no request other than manage_components changes the weight
\* of a stored component.
C15_WeightPositive ==
  [][\A cc \in {course_components'} :
       /\ \A k \in DOMAIN cc : FGt(cc[k].weight, FZero)
       /\ \A k \in DOMAIN cc, j \in DOMAIN course_components :
            (cc[k].id = course_components[j].id
             /\ cc[k].weight # course_components[j].weight) =>
              resp'.op = "manage_components"
       /\ (resp'.op = "manage_components"
           /\ resp'.flash = "Weight must be positive.") =>
            cc = course_components
    ]_vars

\* An update with a weight <= 0 was refused while a component is stored.
C15_Witness ==
  /\ resp.op = "manage_components"
  /\ resp.flash = "Weight must be positive."
  /\ course_components # <<>>

(***************************************************************************)
(* The grading scales on their own: two owners register and edit their     *)
(* scales.  No other request writes grading_systems, so the scales of Spec *)
(* are among the ones reached here.                                        *)
(***************************************************************************)
GradingUsernames == {"ann", "bob"}

\* The grading form as submitted: <<grade_letter, grade_point>>.
GradingForms == GradeForms \cup { <<"e", <<35, 10>> >> }

NextGrading ==
  \/ \E username \in GradingUsernames : register(username) \/ register_taken(username)
  \/ \E u \in UserIds, f \in GradingForms : grading_system_add_or_update(u, f[1], f[2])
  \/ \E u \in UserIds, i \in DOMAIN grading_systems :
       /\ grading_systems[i].grade_letter \in DeletedLetters
       /\ grading_system_delete(u, grading_systems[i].id)

SpecGrading == Init /\ [][NextGrading]_vars

\* The rows of owner u among the grading_systems rows gs.
RowsOf(gs, u) == LET Mine(r) == r.user_id = u IN SelectSeq(gs, Mine)

\* C16: an owner's grading scale holds at most one point per upper-cased
\* grade letter in every state reached by registration seeding and
\* grading_system add_or_update and delete requests; add_or_update of a letter
\* the owner already has replaces its point and adds no entry; and a
\* grading_system request leaves the entries of the other owners unchanged.
C16_OnePointPerLetter ==
  [][\A gs \in {grading_systems'} :
       /\ \A i, j \in DOMAIN gs :
            (gs[i].user_id = gs[j].user_id
             /\ Upper(gs[i].grade_letter) = Upper(gs[j].grade_letter)) => i = j
       /\ \A u \in UserIds :
            (resp'.op = "grading_system" /\ resp'.user # u) =>
              RowsOf(gs, u) = RowsOf(grading_systems, u)
       /\ \A u \in UserIds, f \in GradingForms :
            (/\ Upper(f[1]) \in DictKeys(ScaleIn(grading_systems, u))
             /\ resp'.op = "grading_system"
             /\ grading_system_add_or_update(u, f[1], f[2])) =>
              /\ Len(RowsOf(gs, u)) = Len(RowsOf(grading_systems, u))
              /\ \A k \in DOMAIN RowsOf(gs, u) :
                   /\ RowsOf(gs, u)[k].grade_letter =
                        RowsOf(grading_systems, u)[k].grade_letter
                   /\ RowsOf(gs, u)[k].grade_point =
                        IF RowsOf(gs, u)[k].grade_letter = Upper(f[1])
                        THEN F(f[2])
                        ELSE RowsOf(grading_systems, u)[k].grade_point
    ]_vars

\* Two owners hold the letter A: ann has just moved hers to 3.0, bob's is
\* still the seeded 4.0.
C16_Witness ==
  /\ resp.op = "grading_system"
  /\ resp.flash = "updated successfully!"
  /\ Len(users) = 2
  /\ DictGet(ScaleIn(grading_systems, 1), "A") = FInt(3)
  /\ DictGet(ScaleIn(grading_systems, 2), "A") = FInt(4)

\* C17: grading-scale edits never change the grade of a final_grade course:
\* a grading_system add_or_update or delete, even one that changes the point
\* of the course's letter or removes the letter, leaves the stored
\* final_grade_letter and final_grade_point of every course unchanged; and
\* whenever calculate_cgpa returns a value (to dashboard or
\* /_get_current_cgpa) it has counted that stored point for a final_grade
\* course and, for a components course, the point its components give under
\* the scale as it is at the call.
C17_ScaleEditsKeepStoredGrade ==
  [][/\ resp'.op = "grading_system" =>
          \A i \in DOMAIN courses :
            /\ i \in DOMAIN courses'
            /\ courses'[i].id = courses[i].id
            /\ courses'[i].calculation_method = courses[i].calculation_method
            /\ StoredPair(courses'[i]) = StoredPair(courses[i])
     /\ \A u \in UserIds :
          (/\ resp'.op \in {"dashboard", "_get_current_cgpa"}
           /\ resp'.user = u
           /\ resp'.exc = "") =>
            resp'.out = Some(CgpaOfDetermined(u))
    ]_vars

\* The dashboard shows 4.0 for a final_grade course stored as (A, 4.0) after
\* the owner moved A to 3.0 or deleted it.
C17_Witness ==
  /\ resp.op = "dashboard"
  /\ resp.out = Some(FInt(4))
  /\ \E i \in DOMAIN courses :
       /\ courses[i].calculation_method = "final_grade"
       /\ StoredPair(courses[i]) = <<Some("A"), Some(FInt(4))>>
       /\ \/ "A" \notin DictKeys(get_user_grading_system(courses[i].user_id))
          \/ DictGet(get_user_grading_system(courses[i].user_id), "A") = FInt(3)
====
